---- MODULE Spec2Model ----
(***************************************************************************)
(* Model of prayer-counter.py: the PrayerTimer countdown loop (run), the   *)
(* deadline selection (get_next_prayer), the remaining-time decomposition  *)
(* (get_time_remaining), the fire-once announcement rule                   *)
(* (should_announce), the startup (load_or_create_config,                  *)
(* fetch_prayer_times) and the azan playback (play_azan).                  *)
(*                                                                         *)
(* Time is an integer number of ticks since local midnight of day 0 of the *)
(* run; one second is TicksPerSec ticks, so datetime.now() is observed     *)
(* with sub-second resolution as in the program.                           *)
(***************************************************************************)
EXTENDS Integers, Sequences, FiniteSets, TLC

(* ------------------------------ bounds -------------------------------- *)
\* clock resolution: ticks per second
TicksPerSec == 2
\* extra ticks a sleep or a blocking call may take beyond its nominal length
MaxJitter == 1
\* ticks that may pass between the two datetime.now() reads of one iteration
MaxSkew == 1
\* longest azan playback, in seconds
MaxAzanSecs == 2
\* number of non-interrupt errors raised during one run
MaxErrors == 1
\* simulated length of a run of the loop, in seconds
HorizonSecs == 135
\* simulated length of a long run of the loop, in minutes
LongHorizonMin == 91
\* number of should_announce calls in one run of the announcement model
MaxCalls == 3
\* largest minutes_remaining value passed to should_announce
MaxMinute == 181
\* largest number of whole hours in a get_time_remaining input
MaxHours == 2

(* ------------------------ program constants --------------------------- *)
PRAYERS == <<"Fajr", "Dhuhr", "Asr", "Maghrib", "Isha">>

ANNOUNCEMENT_INTERVALS == <<180, 120, 90, 60, 45, 30, 20>>

\* first minute count that is no longer announced every minute
PerMinuteBelow == 20
\* time.sleep(1) at the end of an iteration
PollSleepSecs == 1
\* time.sleep(60) after the prayer-time announcement
PostPrayerSleepSecs == 60
\* time.sleep(5) in the generic exception handler
CooldownSecs == 5

SecsPerMin == 60
SecsPerHour == 3600
SecsPerDay == 86400

TicksPerDay == SecsPerDay * TicksPerSec

Range(s) == {s[i] : i \in 1..Len(s)}

(* --------------------------- time helpers ----------------------------- *)
\* a time-of-day string "HH:MM" is the tuple of its four digits
HHMM(h, m) == <<h \div 10, h % 10, m \div 10, m % 10>>

\* datetime.strptime(s, '%H:%M'): hour and minute of the string
Strptime(s) == [hour |-> 10 * s[1] + s[2], minute |-> 10 * s[3] + s[4]]

\* the instant h:m:s (+ frac ticks) of day d
At(d, h, m, s, frac) ==
    d * TicksPerDay + (h * SecsPerHour + m * SecsPerMin + s) * TicksPerSec + frac

\* strptime(s).replace(year, month, day of t): s on the calendar day of t
OnDayOf(s, t) ==
    LET p == Strptime(s)
    IN  (t \div TicksPerDay) * TicksPerDay
          + (p.hour * SecsPerHour + p.minute * SecsPerMin) * TicksPerSec

(* -------------------------- get_next_prayer --------------------------- *)
RECURSIVE ScanPrayers(_, _, _)
ScanPrayers(pt, t, i) ==
    IF i > Len(PRAYERS)
    THEN [name |-> "Fajr", time |-> OnDayOf(pt["Fajr"], t + TicksPerDay)]
    ELSE LET prayer_time == OnDayOf(pt[PRAYERS[i]], t)
         IN  IF prayer_time > t
             THEN [name |-> PRAYERS[i], time |-> prayer_time]
             ELSE ScanPrayers(pt, t, i + 1)

ScanPrayersInclusive(pt, t) ==
    LET hits == {i \in 1..Len(PRAYERS) : OnDayOf(pt[PRAYERS[i]], t) >= t}
    IN  IF hits = {}
        THEN [name |-> "Fajr", time |-> OnDayOf(pt["Fajr"], t + TicksPerDay)]
        ELSE LET i == CHOOSE k \in hits : \A j \in hits : k <= j
             IN  [name |-> PRAYERS[i], time |-> OnDayOf(pt[PRAYERS[i]], t)]

GetNextPrayerLatestToday(pt, t) ==
    LET hits == {i \in 1..Len(PRAYERS) : OnDayOf(pt[PRAYERS[i]], t) > t}
    IN  IF hits = {}
        THEN [name |-> "Fajr", time |-> OnDayOf(pt["Fajr"], t + TicksPerDay)]
        ELSE LET i == CHOOSE k \in hits : \A j \in hits : k >= j
             IN  [name |-> PRAYERS[i], time |-> OnDayOf(pt[PRAYERS[i]], t)]

GetNextPrayerNoWraparound(pt, t) ==
    IF \E i \in 1..Len(PRAYERS) : OnDayOf(pt[PRAYERS[i]], t) > t
    THEN ScanPrayers(pt, t, 1)
    ELSE [name |-> "Fajr", time |-> OnDayOf(pt["Fajr"], t)]

get_next_prayer(pt, t) == ScanPrayers(pt, t, 1)

(* ------------------------- get_time_remaining ------------------------- *)
\* int(delta.total_seconds()): truncation toward zero
IntSeconds(delta) ==
    IF delta >= 0 THEN delta \div TicksPerSec ELSE -((-delta) \div TicksPerSec)

TimeRemainingNoHourWrap(target_time, t) ==
    LET total_seconds == IntSeconds(target_time - t)
    IN  [hours   |-> total_seconds \div SecsPerHour,
         minutes |-> total_seconds \div SecsPerMin,
         seconds |-> total_seconds % SecsPerMin]

get_time_remaining(target_time, t) ==
    LET total_seconds == IntSeconds(target_time - t)
    IN  [hours   |-> total_seconds \div SecsPerHour,
         minutes |-> (total_seconds % SecsPerHour) \div SecsPerMin,
         seconds |-> total_seconds % SecsPerMin]

(* --------------------------- should_announce -------------------------- *)
ShouldAnnounceNoUpperBound(minutes_remaining, intervals) ==
    IF minutes_remaining \in Range(ANNOUNCEMENT_INTERVALS)
    THEN IF minutes_remaining \notin intervals
         THEN [result |-> TRUE, intervals |-> intervals \cup {minutes_remaining}]
         ELSE [result |-> FALSE, intervals |-> intervals]
    ELSE IF 1 <= minutes_remaining
         THEN IF minutes_remaining \notin intervals
              THEN [result |-> TRUE, intervals |-> intervals \cup {minutes_remaining}]
              ELSE [result |-> FALSE, intervals |-> intervals]
         ELSE [result |-> FALSE, intervals |-> intervals]

ShouldAnnounceNoMemory(minutes_remaining, intervals) ==
    IF minutes_remaining \in Range(ANNOUNCEMENT_INTERVALS)
          \/ (1 <= minutes_remaining /\ minutes_remaining < PerMinuteBelow)
    THEN [result |-> TRUE, intervals |-> intervals \cup {minutes_remaining}]
    ELSE [result |-> FALSE, intervals |-> intervals]

ShouldAnnounceRecordsRefusals(minutes_remaining, intervals) ==
    IF (minutes_remaining \in Range(ANNOUNCEMENT_INTERVALS)
          \/ (1 <= minutes_remaining /\ minutes_remaining < PerMinuteBelow))
       /\ minutes_remaining \notin intervals
    THEN [result |-> TRUE, intervals |-> intervals \cup {minutes_remaining}]
    ELSE [result |-> FALSE, intervals |-> intervals \cup {minutes_remaining}]

\* the return value and the new value of self.announced_intervals
should_announce(minutes_remaining, intervals) ==
    IF minutes_remaining \in Range(ANNOUNCEMENT_INTERVALS)
    THEN IF minutes_remaining \notin intervals
         THEN [result |-> TRUE, intervals |-> intervals \cup {minutes_remaining}]
         ELSE [result |-> FALSE, intervals |-> intervals]
    ELSE IF 1 <= minutes_remaining /\ minutes_remaining < PerMinuteBelow
         THEN IF minutes_remaining \notin intervals
              THEN [result |-> TRUE, intervals |-> intervals \cup {minutes_remaining}]
              ELSE [result |-> FALSE, intervals |-> intervals]
         ELSE [result |-> FALSE, intervals |-> intervals]


(* ------------------------- announcement message ----------------------- *)
\* the message of run's "Make announcements" block, as the numbers it prints
AnnouncementMessage(total_minutes, prayer_name) ==
    IF total_minutes >= 60
    THEN LET hours_msg == total_minutes \div 60
             mins_msg  == total_minutes % 60
         IN  IF mins_msg > 0
             THEN [form |-> "hours and minutes", hours |-> hours_msg,
                   minutes |-> mins_msg, prayer |-> prayer_name]
             ELSE [form |-> "hours", hours |-> hours_msg,
                   minutes |-> 0, prayer |-> prayer_name]
    ELSE [form |-> "minutes", hours |-> 0,
          minutes |-> total_minutes, prayer |-> prayer_name]

\* the minutes-before-prayer a message speaks of
MessageMinutes(msg) == msg.hours * 60 + msg.minutes

(* ---------------------------- configuration --------------------------- *)
\* Python's None, for a value that is not there: the configuration file, the
\* return value of a function that ends without a return statement
None == [none |-> TRUE]

\* JSON numbers are kept as their literal text; these are the ones in use
NumberLiterals == {"21.4225", "39.8262", "30.0444", "31.2357"}

\* f"{v:.4f}" succeeds for a number and raises for a string or null
FormatsAsFloat(v) == v \in NumberLiterals

\* the fallback location of detect_location
MeccaLocation ==
    [latitude |-> "21.4225", longitude |-> "39.8262",
     city |-> "Mecca", country |-> "Saudi Arabia"]

\* detect_location, given what requests.get('http://ip-api.com/json/') came
\* back with: an exception, a timeout, a body that is not JSON, or JSON data
detect_location(resp) ==
    IF resp.kind # "json"
    THEN MeccaLocation              \* requests.get or response.json() raised
    ELSE LET data == resp.data
         IN  IF "status" \notin DOMAIN data
             THEN MeccaLocation     \* KeyError, caught
             ELSE IF data.status = "success"
                  THEN IF {"lat", "lon", "city", "country"} \subseteq DOMAIN data
                       THEN [latitude |-> data.lat, longitude |-> data.lon,
                             city |-> data.city, country |-> data.country]
                       ELSE MeccaLocation   \* KeyError, caught
                  ELSE MeccaLocation

\* create_default_config after detect_location has returned: the dictionary,
\* or the exception of the "Coordinates" line that formats both values
create_default_config(location) ==
    IF FormatsAsFloat(location.latitude) /\ FormatsAsFloat(location.longitude)
    THEN [raised |-> FALSE,
          config |-> [latitude |-> location.latitude,
                      longitude |-> location.longitude,
                      city |-> location.city,
                      country |-> location.country,
                      method |-> 2,
                      azan_file |-> "azan.mp3",
                      use_default_azan |-> TRUE,
                      announcement_voice |-> TRUE]]
    ELSE [raised |-> TRUE, config |-> None]

(* ------------------------------ play_azan ----------------------------- *)
PlayAzanDownloadRaises(cfg, exists, download, playback) ==
    LET attempt == cfg.use_default_azan /\ ~exists
    IN  IF attempt /\ download = "fail"
        THEN [attempted |-> TRUE, download_failed |-> TRUE, exists |-> exists,
              played |-> FALSE, play_failed |-> FALSE, raised |-> TRUE]
        ELSE [attempted |-> attempt, download_failed |-> FALSE,
              exists |-> exists \/ attempt,
              played |-> (exists \/ attempt) /\ playback = "ok",
              play_failed |-> (exists \/ attempt) /\ playback = "fail",
              raised |-> FALSE]

\* play_azan, given whether the azan file exists and how the download and the
\* playback go if they are tried: what it did, and whether the file exists
\* afterwards
play_azan(cfg, exists, download, playback) ==
    LET attempt == cfg.use_default_azan /\ ~exists
    IN  IF attempt /\ download = "fail"
        THEN \* "Could not download azan", return
             [attempted |-> TRUE, download_failed |-> TRUE, exists |-> exists,
              played |-> FALSE, play_failed |-> FALSE, raised |-> FALSE]
        ELSE \* the file is played if it is there now; "Error playing azan"
             \* and "Azan file not found" are printed otherwise
             [attempted |-> attempt, download_failed |-> FALSE,
              exists |-> exists \/ attempt,
              played |-> (exists \/ attempt) /\ playback = "ok",
              play_failed |-> (exists \/ attempt) /\ playback = "fail",
              raised |-> FALSE]

(* ------------------------------ the state ----------------------------- *)
VARIABLES
    prayer_times,              \* self.prayer_times: prayer name -> "HH:MM"
    announced_intervals,       \* self.announced_intervals
    current_prayer_announced,  \* self.current_prayer_announced
    now,                       \* the wall clock, in ticks
    pc,                        \* where the process is
    target,                    \* prayer_name, prayer_time of the last iteration
    remaining,                 \* hours, minutes, seconds of the last iteration
    exit_code,                 \* the process's exit status once it has ended
    farewell,                  \* the "Timer stopped" message has been printed
    startTime,                 \* the clock when the loop was entered
    endTime,                   \* the clock at which the simulated run ends
    crossed,                   \* deadlines whose IT'S TIME banner was printed
    recrossed,                 \* deadlines whose banner was printed twice
    emitted,                   \* announcements made: <<deadline, message>>
    nErr,                      \* non-interrupt errors raised so far
    errLimit,                  \* non-interrupt errors the run may raise
    logged,                    \* errors reported by the generic handler
    interrupted,               \* an interrupt signal has been delivered
    lastCall,                  \* the last should_announce call and its result
    calledThisCycle,           \* values passed to should_announce this cycle
    firedThisCycle,            \* values should_announce accepted this cycle
    firedEarlier,              \* values accepted before the last reset
    nCalls,                    \* should_announce calls made
    focus,                     \* the value the announcement run is about
    config,                    \* self.config
    config_file,               \* the contents of prayer_config.json, or None
    geo_calls,                 \* requests made to the geolocation service
    file_writes,               \* times the configuration file was written
    fetches,                   \* requests made to the prayer-times service
    fetch_reported,            \* "Error fetching prayer times" was printed
    initial_file,              \* the configuration file as the process found it
    geo_response,              \* what the geolocation request came back with
    fetch_response,            \* what the prayer-times request came back with
    azan_file_exists,          \* os.path.exists(azan_file)
    azanFaults,                \* the download and the playback may fail
    azanLog                    \* what the last play_azan call did

vars == <<prayer_times, announced_intervals, current_prayer_announced, now, pc,
          target, remaining, exit_code, farewell, startTime, endTime, crossed,
          recrossed, emitted, nErr, errLimit, logged, interrupted, lastCall,
          calledThisCycle, firedThisCycle, firedEarlier, nCalls, focus,
          config, config_file, geo_calls, file_writes, fetches, fetch_reported,
          initial_file, geo_response, fetch_response,
          azan_file_exists, azanFaults, azanLog>>

probeVars == <<lastCall, calledThisCycle, firedThisCycle, firedEarlier, nCalls, focus>>

startupVars == <<config, config_file, geo_calls, file_writes, fetches,
                 fetch_reported, initial_file, geo_response, fetch_response>>

azanVars == <<azan_file_exists, azanFaults, azanLog>>

NoTarget == [name |-> "", time |-> -1]
NoRemaining == [hours |-> -1, minutes |-> -1, seconds |-> -1]
NoCall == [m |-> -1, result |-> FALSE, first |-> FALSE]
Running == -1
NoAzan ==
    [called |-> FALSE, existed |-> FALSE, attempted |-> FALSE,
     download_failed |-> FALSE, exists |-> FALSE, played |-> FALSE,
     play_failed |-> FALSE, raised |-> FALSE]

\* the schedule of the specification's examples
ExampleSchedule ==
    [p \in Range(PRAYERS) |->
        CASE p = "Fajr"    -> HHMM(5, 0)
          [] p = "Dhuhr"   -> HHMM(12, 30)
          [] p = "Asr"     -> HHMM(16, 0)
          [] p = "Maghrib" -> HHMM(19, 0)
          [] p = "Isha"    -> HHMM(20, 30)]

\* the loop is entered at 18:58:50 of day 0, at any sub-second phase
StartTimes == {At(0, 18, 58, 50, f) : f \in 0..(TicksPerSec - 1)}

\* the startup has completed with the configuration create_default_config
\* makes for the fallback location, and the azan file is in place
InitEnv ==
    /\ config = create_default_config(MeccaLocation).config
    /\ config_file = config
    /\ geo_calls = 0
    /\ file_writes = 0
    /\ fetches = 1
    /\ fetch_reported = FALSE
    /\ initial_file = config
    /\ geo_response = None
    /\ fetch_response = None
    /\ azan_file_exists = TRUE
    /\ azanFaults = FALSE
    /\ azanLog = NoAzan

InitProbe ==
    /\ lastCall = NoCall
    /\ calledThisCycle = {}
    /\ firedThisCycle = {}
    /\ firedEarlier = {}
    /\ nCalls = 0
    /\ focus = -1

\* __init__ and run up to the first iteration of the loop
InitRun(seconds, errors) ==
    /\ prayer_times = ExampleSchedule
    /\ announced_intervals = {}
    /\ current_prayer_announced = FALSE
    /\ now \in StartTimes
    /\ startTime = now
    /\ endTime = now + seconds * TicksPerSec
    /\ pc = "loop"
    /\ target = NoTarget
    /\ remaining = NoRemaining
    /\ exit_code = Running
    /\ farewell = FALSE
    /\ crossed = {}
    /\ recrossed = {}
    /\ emitted = {}
    /\ nErr = 0
    /\ errLimit = errors
    /\ logged = 0
    /\ interrupted = FALSE
    /\ InitProbe
    /\ InitEnv

Init == InitRun(HorizonSecs, MaxErrors)

\* a long run in which nothing raises
InitLong == InitRun(LongHorizonMin * SecsPerMin, 0)

(* --------------------------- the except clauses ----------------------- *)
HandleExceptionNoCatch(exc) ==
    IF exc = "KeyboardInterrupt"
    THEN [pc |-> "exited", farewell |-> TRUE, exit_code |-> 0, logged |-> 0]
    ELSE [pc |-> "crashed", farewell |-> FALSE, exit_code |-> 1, logged |-> 0]

\* what the try statement of run does with an exception raised in its body
HandleException(exc) ==
    IF exc = "KeyboardInterrupt"
    THEN [pc |-> "exited", farewell |-> TRUE, exit_code |-> 0, logged |-> 0]
    ELSE [pc |-> "cooldown", farewell |-> FALSE, exit_code |-> Running, logged |-> 1]

\* an exception of the named kind is raised in the body of the try statement
Raise(exc) ==
    LET h == HandleException(exc)
    IN  /\ pc' = h.pc
        /\ farewell' = h.farewell
        /\ exit_code' = h.exit_code
        /\ logged' = logged + h.logged

\* where a non-interrupt error may be raised in an iteration
ErrorPoints == IF nErr < errLimit THEN {"none", "early", "sink"} ELSE {"none"}

ClearNothing(intervals) == intervals

\* self.announced_intervals.clear()
ClearedIntervals(intervals) == {}

(* ------------------------------ the loop ------------------------------ *)
\* One iteration of the while loop of run, from get_next_prayer up to the
\* blocking call that ends it: play_azan, a sleep, or the handler's sleep.
Iterate ==
    /\ pc = "loop"
    /\ now < endTime
    /\ \E skew \in 0..MaxSkew, err \in ErrorPoints :
         LET np            == get_next_prayer(prayer_times, now)
             n2            == now + skew
             rem           == get_time_remaining(np.time, n2)
             total_minutes == rem.hours * 60 + rem.minutes
             atZero        == total_minutes = 0 /\ rem.seconds = 0
             sa            == should_announce(total_minutes, announced_intervals)
         IN  /\ now' = n2
             /\ IF err = "early"
                THEN \* raised before the state is touched (strptime, print)
                     /\ Raise("Exception")
                     /\ nErr' = nErr + 1
                     /\ UNCHANGED <<target, remaining, announced_intervals,
                                    current_prayer_announced, crossed, recrossed,
                                    emitted>>
                ELSE IF np.name = ""
                THEN \* "No upcoming prayers found": sleep 60 and continue
                     /\ pc' = "pause60"
                     /\ target' = np
                     /\ UNCHANGED <<remaining, announced_intervals,
                                    current_prayer_announced, crossed, recrossed,
                                    emitted, nErr, logged, farewell, exit_code>>
                ELSE IF atZero /\ ~current_prayer_announced
                THEN \* the IT'S TIME banner is printed, play_azan is entered
                     /\ pc' = "azan"
                     /\ target' = np
                     /\ remaining' = rem
                     /\ crossed' = crossed \cup {np.time}
                     /\ recrossed' = IF np.time \in crossed
                                     THEN recrossed \cup {np.time}
                                     ELSE recrossed
                     /\ UNCHANGED <<announced_intervals, current_prayer_announced,
                                    emitted, nErr, logged, farewell, exit_code>>
                ELSE /\ target' = np
                     /\ remaining' = rem
                     /\ current_prayer_announced' =
                            IF atZero THEN current_prayer_announced ELSE FALSE
                     /\ announced_intervals' = sa.intervals
                     /\ UNCHANGED <<crossed, recrossed>>
                     /\ IF sa.result /\ err = "sink"
                        THEN \* text_to_speech raises
                             /\ Raise("Exception")
                             /\ nErr' = nErr + 1
                             /\ UNCHANGED emitted
                        ELSE /\ pc' = "sleep1"
                             /\ emitted' =
                                  IF sa.result
                                  THEN emitted \cup
                                       {<<np.time,
                                          AnnouncementMessage(total_minutes, np.name)>>}
                                  ELSE emitted
                             /\ UNCHANGED <<nErr, logged, farewell, exit_code>>
    /\ UNCHANGED <<prayer_times, startTime, endTime, errLimit, interrupted>>
    /\ UNCHANGED <<probeVars, startupVars, azanVars>>

AzanDoneNoBookkeeping ==
    /\ pc = "azan"
    /\ \E d \in 0..MaxAzanSecs : now' = now + d * TicksPerSec
    /\ pc' = "loop"
    /\ UNCHANGED <<prayer_times, announced_intervals, current_prayer_announced,
                   target, remaining, exit_code, farewell, startTime, endTime,
                   crossed, recrossed, emitted, nErr, errLimit, logged, interrupted>>
    /\ UNCHANGED <<probeVars, startupVars, azanVars>>

\* how a download or a playback that is tried can go
AzanOutcomes == IF azanFaults THEN {"ok", "fail"} ELSE {"ok"}

\* play_azan returns (after blocking for the download and the playback, or at
\* once when there is nothing to play) and the transition finishes:
\* display_prayer_times, the flag, the clear; or play_azan /
\* display_prayer_times raises.
AzanDone ==
    /\ pc = "azan"
    /\ \E d \in 0..MaxAzanSecs, err \in ErrorPoints,
          download \in AzanOutcomes, playback \in AzanOutcomes :
         LET r == play_azan(config, azan_file_exists, download, playback)
         IN  /\ now' = now + d * TicksPerSec
             /\ azan_file_exists' = r.exists
             /\ azanLog' = [called |-> TRUE, existed |-> azan_file_exists] @@ r
             /\ IF err = "sink" \/ r.raised
                THEN /\ Raise("Exception")
                     /\ nErr' = nErr + 1
                     /\ UNCHANGED <<announced_intervals, current_prayer_announced>>
                ELSE /\ current_prayer_announced' = TRUE
                     /\ announced_intervals' = ClearedIntervals(announced_intervals)
                     /\ pc' = "pause60"
                     /\ UNCHANGED <<nErr, logged, farewell, exit_code>>
    /\ UNCHANGED <<prayer_times, target, remaining, startTime, endTime, crossed,
                   recrossed, emitted, errLimit, interrupted, azanFaults>>
    /\ UNCHANGED <<probeVars, startupVars>>

\* a sleep of the loop returns and the next iteration starts
SleepDone(at, secs) ==
    /\ pc = at
    /\ \E j \in 0..MaxJitter : now' = now + secs * TicksPerSec + j
    /\ pc' = "loop"
    /\ UNCHANGED <<prayer_times, announced_intervals, current_prayer_announced,
                   target, remaining, exit_code, farewell, startTime, endTime,
                   crossed, recrossed, emitted, nErr, errLimit, logged, interrupted>>
    /\ UNCHANGED <<probeVars, startupVars, azanVars>>

PollSleepDoneRefetching ==
    /\ pc = "sleep1"
    /\ \E j \in 0..MaxJitter : now' = now + PollSleepSecs * TicksPerSec + j
    /\ pc' = "loop"
    /\ fetches' = fetches + 1
    /\ UNCHANGED <<prayer_times, announced_intervals, current_prayer_announced,
                   target, remaining, exit_code, farewell, startTime, endTime,
                   crossed, recrossed, emitted, nErr, errLimit, logged, interrupted>>
    /\ UNCHANGED <<config, config_file, geo_calls, file_writes, fetch_reported,
                   initial_file, geo_response, fetch_response>>
    /\ UNCHANGED <<probeVars, azanVars>>

\* time.sleep(1) at the end of an iteration
PollSleepDone == SleepDone("sleep1", PollSleepSecs)

\* time.sleep(60) after the prayer-time announcement
PauseDone == SleepDone("pause60", PostPrayerSleepSecs)

\* time.sleep(5) of the generic handler
CooldownDone == SleepDone("cooldown", CooldownSecs)

\* Ctrl+C. Inside the try body it is handled by the except clause; in the
\* generic handler (its print and its sleep) no clause covers it, and it
\* leaves run and main as an uncaught KeyboardInterrupt.
Interrupt ==
    /\ pc \in {"loop", "sleep1", "azan", "pause60", "cooldown"}
    /\ interrupted' = TRUE
    /\ IF pc = "cooldown"
       THEN /\ pc' = "crashed"
            /\ exit_code' \in {1, 130}
            /\ UNCHANGED <<farewell, logged>>
       ELSE Raise("KeyboardInterrupt")
    /\ UNCHANGED <<prayer_times, announced_intervals, current_prayer_announced,
                   now, target, remaining, startTime, endTime, crossed, recrossed,
                   emitted, nErr, errLimit>>
    /\ UNCHANGED <<probeVars, startupVars, azanVars>>

Next ==
    \/ Iterate
    \/ AzanDone
    \/ PollSleepDone
    \/ PauseDone
    \/ CooldownDone
    \/ Interrupt

Spec == Init /\ [][Next]_vars

\* the loop left alone: no error is raised and no interrupt is delivered
NextQuiet ==
    \/ Iterate
    \/ AzanDone
    \/ PollSleepDone
    \/ PauseDone

SpecLong == InitLong /\ [][NextQuiet]_vars

(* -------------------- should_announce on its own ---------------------- *)
\* the loop's variables, at rest while a single method is exercised
InitAtRest(at) ==
    /\ pc = at
    /\ announced_intervals = {}
    /\ current_prayer_announced = FALSE
    /\ startTime = 0
    /\ endTime = 0
    /\ exit_code = Running
    /\ farewell = FALSE
    /\ crossed = {}
    /\ recrossed = {}
    /\ emitted = {}
    /\ nErr = 0
    /\ errLimit = 0
    /\ logged = 0
    /\ interrupted = FALSE
    /\ InitEnv

\* values passed to should_announce besides the one the run is about; 1439 is
\* the largest total_minutes a deadline less than a day away can give
OtherMinutes == {0, 1, 20, 21, 1439}

InitAnnounce ==
    /\ InitAtRest("should_announce")
    /\ prayer_times = ExampleSchedule
    /\ now = 0
    /\ target = NoTarget
    /\ remaining = NoRemaining
    /\ lastCall = NoCall
    /\ calledThisCycle = {}
    /\ firedThisCycle = {}
    /\ firedEarlier = {}
    /\ nCalls = 0
    /\ focus \in 0..MaxMinute

loopVars == <<prayer_times, current_prayer_announced, now, pc, target, remaining,
              exit_code, farewell, startTime, endTime, crossed, recrossed,
              emitted, nErr, errLimit, logged, interrupted, startupVars,
              azanVars>>

\* self.should_announce(m)
CallShouldAnnounce ==
    /\ pc = "should_announce"
    /\ nCalls < MaxCalls
    /\ \E m \in {focus} \cup OtherMinutes :
         LET sa == should_announce(m, announced_intervals)
         IN  /\ announced_intervals' = sa.intervals
             /\ lastCall' = [m |-> m, result |-> sa.result,
                             first |-> m \notin calledThisCycle]
             /\ calledThisCycle' = calledThisCycle \cup {m}
             /\ firedThisCycle' =
                  IF sa.result THEN firedThisCycle \cup {m} ELSE firedThisCycle
    /\ nCalls' = nCalls + 1
    /\ UNCHANGED <<firedEarlier, focus>>
    /\ UNCHANGED loopVars

\* the reset of the deadline-crossing transition: announced_intervals.clear()
ResetCycle ==
    /\ pc = "should_announce"
    /\ firedThisCycle # {}
    /\ announced_intervals' = ClearedIntervals(announced_intervals)
    /\ firedEarlier' = firedEarlier \cup firedThisCycle
    /\ firedThisCycle' = {}
    /\ calledThisCycle' = {}
    /\ lastCall' = NoCall
    /\ UNCHANGED <<nCalls, focus>>
    /\ UNCHANGED loopVars

NextAnnounce ==
    \/ CallShouldAnnounce
    \/ ResetCycle

SpecAnnounce == InitAnnounce /\ [][NextAnnounce]_vars

(* -------------------- get_next_prayer on its own ---------------------- *)
\* a high-latitude summer day: Isha falls after midnight
LateIshaSchedule ==
    [p \in Range(PRAYERS) |->
        CASE p = "Fajr"    -> HHMM(2, 10)
          [] p = "Dhuhr"   -> HHMM(13, 20)
          [] p = "Asr"     -> HHMM(17, 50)
          [] p = "Maghrib" -> HHMM(23, 30)
          [] p = "Isha"    -> HHMM(0, 40)]

\* a high-latitude winter day
WinterSchedule ==
    [p \in Range(PRAYERS) |->
        CASE p = "Fajr"    -> HHMM(6, 30)
          [] p = "Dhuhr"   -> HHMM(12, 0)
          [] p = "Asr"     -> HHMM(12, 45)
          [] p = "Maghrib" -> HHMM(15, 10)
          [] p = "Isha"    -> HHMM(17, 45)]

\* every schedule made of the first minute of the day, noon and the last
\* minute of the day, in any order and with repetitions
GridSchedules == [Range(PRAYERS) -> {HHMM(0, 0), HHMM(12, 0), HHMM(23, 59)}]

ProbeSchedules ==
    {ExampleSchedule, LateIshaSchedule, WinterSchedule} \cup GridSchedules

\* clock values around every deadline, at the hours of the examples and at
\* the ends of the day, on two consecutive days
ProbeNows(pt) ==
    {OnDayOf(pt[p], d * TicksPerDay) + k :
        p \in Range(PRAYERS), d \in 0..1, k \in (-TicksPerSec)..TicksPerSec}
    \cup {At(d, h, 0, 0, f) : d \in 0..1, h \in {0, 18, 23}, f \in 0..1}
    \cup {At(d, 23, 59, 59, TicksPerSec - 1) : d \in 0..1}

InitNextPrayer ==
    /\ InitAtRest("get_next_prayer")
    /\ InitProbe
    /\ prayer_times \in ProbeSchedules
    /\ now \in ProbeNows(prayer_times)
    /\ target = NoTarget
    /\ remaining = NoRemaining

\* prayer_name, prayer_time = self.get_next_prayer()
CallGetNextPrayer ==
    /\ pc = "get_next_prayer"
    /\ target = NoTarget
    /\ target' = get_next_prayer(prayer_times, now)
    /\ UNCHANGED <<prayer_times, announced_intervals, current_prayer_announced,
                   now, pc, remaining, exit_code, farewell, startTime, endTime,
                   crossed, recrossed, emitted, nErr, errLimit, logged,
                   interrupted>>
    /\ UNCHANGED <<probeVars, startupVars, azanVars>>

SpecNextPrayer == InitNextPrayer /\ [][CallGetNextPrayer]_vars

(* ------------------- get_time_remaining on its own -------------------- *)
\* target_time - now, in ticks: up to MaxHours hours, and a little negative
ProbeDeltas ==
    {(h * SecsPerHour + m * SecsPerMin + s) * TicksPerSec + f :
        h \in 0..MaxHours, m \in {0, 1, 30, 59}, s \in {0, 5, 15, 59},
        f \in 0..(TicksPerSec - 1)}
    \cup {-k : k \in 1..TicksPerSec}

InitRemaining ==
    /\ InitAtRest("get_time_remaining")
    /\ InitProbe
    /\ prayer_times = ExampleSchedule
    /\ now \in {At(0, 10, 0, 0, 0), At(0, 12, 0, 0, 0), At(0, 23, 59, 30, 1)}
    /\ \E d \in ProbeDeltas : target = [name |-> "Maghrib", time |-> now + d]
    /\ remaining = NoRemaining

\* hours, minutes, seconds = self.get_time_remaining(prayer_time)
CallGetTimeRemaining ==
    /\ pc = "get_time_remaining"
    /\ remaining = NoRemaining
    /\ remaining' = get_time_remaining(target.time, now)
    /\ UNCHANGED <<prayer_times, announced_intervals, current_prayer_announced,
                   now, pc, target, exit_code, farewell, startTime, endTime,
                   crossed, recrossed, emitted, nErr, errLimit, logged,
                   interrupted>>
    /\ UNCHANGED <<probeVars, startupVars, azanVars>>

SpecRemaining == InitRemaining /\ [][CallGetTimeRemaining]_vars

(* ------------------------------- startup ------------------------------ *)
\* bounds of the startup model: length of the run of the loop that follows
\* the startup, in seconds
StartupHorizonSecs == 6

\* a configuration saved by an earlier run and edited by the user: an own
\* azan file and no default download
SavedConfig ==
    [latitude |-> "30.0444", longitude |-> "31.2357", city |-> "Cairo",
     country |-> "Egypt", method |-> 2, azan_file |-> "my_azan.mp3",
     use_default_azan |-> FALSE, announcement_voice |-> TRUE]

\* JSON bodies the geolocation service may answer with: a success, a refusal,
\* a body without a status, a success without lat, and a success whose lat is
\* a string instead of a number
GeoBodies ==
    {[status |-> "success", lat |-> "30.0444", lon |-> "31.2357",
      city |-> "Cairo", country |-> "Egypt"],
     [status |-> "fail", message |-> "reserved range"],
     [message |-> "rate limited"],
     [status |-> "success", lon |-> "31.2357", city |-> "Cairo",
      country |-> "Egypt"],
     [status |-> "success", lat |-> "30.0444 N", lon |-> "31.2357",
      city |-> "Cairo", country |-> "Egypt"]}

GeoResponses ==
    {[kind |-> "exception"], [kind |-> "timeout"], [kind |-> "not_json"]}
    \cup {[kind |-> "json", data |-> d] : d \in GeoBodies}

\* the timings object of the prayer-times service for a schedule: the five
\* prayers and the other keys it carries
Timings(pt) ==
    [k \in Range(PRAYERS) \cup {"Sunrise"} |->
        IF k = "Sunrise" THEN HHMM(6, 0) ELSE pt[k]]

\* the timings object with one key left out
Without(timings, key) == [k \in DOMAIN timings \ {key} |-> timings[k]]

\* JSON bodies the prayer-times service may answer with: a full answer, an
\* error answer, a body without a code, and answers that miss one prayer
FetchBodies ==
    {[code |-> 200, data |-> [timings |-> Timings(pt)]] :
        pt \in {ExampleSchedule, LateIshaSchedule}}
    \cup {[code |-> 400], [status |-> "error"]}
    \cup {[code |-> 200, data |-> [timings |-> Without(Timings(ExampleSchedule), p)]] :
            p \in Range(PRAYERS)}

FetchResponses ==
    {[kind |-> "exception"], [kind |-> "not_json"]}
    \cup {[kind |-> "json", data |-> d] : d \in FetchBodies}

\* fetch_prayer_times, given what requests.get came back with: it returns a
\* value, or prints the error and calls sys.exit(1)
fetch_prayer_times(resp) ==
    LET Exit == [exits |-> TRUE, value |-> None]
    IN  IF resp.kind # "json"
        THEN Exit                   \* requests.get or response.json() raised
        ELSE LET data == resp.data
             IN  IF "code" \notin DOMAIN data
                 THEN Exit          \* KeyError, caught
                 ELSE IF data.code = 200
                      THEN LET timings == data.data.timings
                           IN  IF Range(PRAYERS) \subseteq DOMAIN timings
                               THEN [exits |-> FALSE,
                                     value |-> [p \in Range(PRAYERS) |-> timings[p]]]
                               ELSE Exit    \* KeyError, caught
                      ELSE \* the function ends without a return statement
                           [exits |-> FALSE, value |-> None]

\* the process starts a few seconds before midnight of day 0
StartupTimes == {At(0, 23, 59, 57, f) : f \in 0..(TicksPerSec - 1)}

\* the process before PrayerTimer() is constructed
InitStartup ==
    /\ pc = "init"
    /\ config = None
    /\ config_file \in {None, SavedConfig}
    /\ initial_file = config_file
    /\ geo_calls = 0
    /\ file_writes = 0
    /\ fetches = 0
    /\ fetch_reported = FALSE
    /\ geo_response = None
    /\ fetch_response = None
    /\ prayer_times = [p \in {} |-> HHMM(0, 0)]
    /\ announced_intervals = {}
    /\ current_prayer_announced = FALSE
    /\ now \in StartupTimes
    /\ startTime = now
    /\ endTime = now + StartupHorizonSecs * TicksPerSec
    /\ target = NoTarget
    /\ remaining = NoRemaining
    /\ exit_code = Running
    /\ farewell = FALSE
    /\ crossed = {}
    /\ recrossed = {}
    /\ emitted = {}
    /\ nErr = 0
    /\ errLimit = 0
    /\ logged = 0
    /\ interrupted = FALSE
    /\ azan_file_exists = TRUE
    /\ azanFaults = FALSE
    /\ azanLog = NoAzan
    /\ InitProbe

\* load_or_create_config up to save_config: the file is loaded, or
\* create_default_config builds the dictionary from detect_location's answer
\* (config then holds the dictionary that is about to be saved)
LoadOrCreateConfig ==
    /\ pc = "init"
    /\ IF config_file # None
       THEN /\ config' = config_file
            /\ pc' = "run"
            /\ UNCHANGED <<geo_calls, geo_response, exit_code>>
       ELSE \E resp \in GeoResponses :
              LET c == create_default_config(detect_location(resp))
              IN  /\ geo_calls' = geo_calls + 1
                  /\ geo_response' = resp
                  /\ IF c.raised
                     THEN /\ pc' = "crashed"
                          /\ exit_code' = 1
                          /\ UNCHANGED config
                     ELSE /\ pc' = "save_config"
                          /\ config' = c.config
                          /\ UNCHANGED exit_code
    /\ UNCHANGED <<prayer_times, announced_intervals, current_prayer_announced,
                   now, target, remaining, farewell, startTime, endTime, crossed,
                   recrossed, emitted, nErr, errLimit, logged, interrupted>>
    /\ UNCHANGED <<config_file, file_writes, fetches, fetch_reported,
                   initial_file, fetch_response>>
    /\ UNCHANGED <<probeVars, azanVars>>

\* self.save_config(config); return config
SaveConfig ==
    /\ pc = "save_config"
    /\ config_file' = config
    /\ file_writes' = file_writes + 1
    /\ pc' = "run"
    /\ UNCHANGED <<prayer_times, announced_intervals, current_prayer_announced,
                   now, target, remaining, exit_code, farewell, startTime,
                   endTime, crossed, recrossed, emitted, nErr, errLimit, logged,
                   interrupted>>
    /\ UNCHANGED <<config, geo_calls, fetches, fetch_reported, initial_file,
                   geo_response, fetch_response>>
    /\ UNCHANGED <<probeVars, azanVars>>

\* self.prayer_times = self.fetch_prayer_times()
FetchPrayerTimes ==
    /\ pc = "run"
    /\ \E resp \in FetchResponses :
         LET r == fetch_prayer_times(resp)
         IN  /\ fetches' = fetches + 1
             /\ fetch_response' = resp
             /\ IF r.exits
                THEN /\ fetch_reported' = TRUE
                     /\ pc' = "exited"
                     /\ exit_code' = 1
                     /\ UNCHANGED prayer_times
                ELSE /\ prayer_times' = r.value
                     /\ pc' = "display"
                     /\ UNCHANGED <<fetch_reported, exit_code>>
    /\ UNCHANGED <<announced_intervals, current_prayer_announced, now, target,
                   remaining, farewell, startTime, endTime, crossed, recrossed,
                   emitted, nErr, errLimit, logged, interrupted>>
    /\ UNCHANGED <<config, config_file, geo_calls, file_writes, initial_file,
                   geo_response>>
    /\ UNCHANGED <<probeVars, azanVars>>

\* self.display_prayer_times() and the "Timer started" line: the loop is
\* entered, or subscripting None raises a TypeError that nothing catches
DisplayPrayerTimes ==
    /\ pc = "display"
    /\ IF prayer_times = None
       THEN /\ pc' = "crashed"
            /\ exit_code' = 1
       ELSE /\ pc' = "loop"
            /\ UNCHANGED exit_code
    /\ UNCHANGED <<prayer_times, announced_intervals, current_prayer_announced,
                   now, target, remaining, farewell, startTime, endTime, crossed,
                   recrossed, emitted, nErr, errLimit, logged, interrupted>>
    /\ UNCHANGED <<probeVars, startupVars, azanVars>>

\* the startup followed by a short run of the loop
NextStartup ==
    \/ LoadOrCreateConfig
    \/ SaveConfig
    \/ FetchPrayerTimes
    \/ DisplayPrayerTimes
    \/ Iterate
    \/ PollSleepDone

SpecStartup == InitStartup /\ [][NextStartup]_vars

(* --------------------- the loop around a deadline --------------------- *)
\* simulated length, in seconds, of a run that starts just before a deadline
DeadlineHorizonSecs == 70
\* seconds before the deadline at which that run enters the loop
LeadSecs == 2

\* a high-latitude midsummer day: Isha follows Maghrib by a minute
MidsummerSchedule ==
    [p \in Range(PRAYERS) |->
        CASE p = "Fajr"    -> HHMM(1, 30)
          [] p = "Dhuhr"   -> HHMM(12, 40)
          [] p = "Asr"     -> HHMM(17, 30)
          [] p = "Maghrib" -> HHMM(23, 40)
          [] p = "Isha"    -> HHMM(23, 41)]

\* the loop is entered shortly before Maghrib with either configuration, the
\* azan file present or absent, and downloads and playbacks that may fail;
\* nothing else raises and no interrupt is delivered
InitDeadline ==
    /\ prayer_times \in {ExampleSchedule, MidsummerSchedule}
    /\ config \in {create_default_config(MeccaLocation).config, SavedConfig}
    /\ config_file = config
    /\ initial_file = config
    /\ geo_calls = 0
    /\ file_writes = 0
    /\ fetches = 1
    /\ fetch_reported = FALSE
    /\ geo_response = None
    /\ fetch_response = None
    /\ azan_file_exists \in BOOLEAN
    /\ azanFaults = TRUE
    /\ azanLog = NoAzan
    /\ announced_intervals = {}
    /\ current_prayer_announced = FALSE
    /\ now \in {OnDayOf(prayer_times["Maghrib"], 0) - LeadSecs * TicksPerSec + f :
                    f \in 0..(TicksPerSec - 1)}
    /\ startTime = now
    /\ endTime = now + DeadlineHorizonSecs * TicksPerSec
    /\ pc = "loop"
    /\ target = NoTarget
    /\ remaining = NoRemaining
    /\ exit_code = Running
    /\ farewell = FALSE
    /\ crossed = {}
    /\ recrossed = {}
    /\ emitted = {}
    /\ nErr = 0
    /\ errLimit = 0
    /\ logged = 0
    /\ interrupted = FALSE
    /\ InitProbe

SpecDeadline == InitDeadline /\ [][NextQuiet]_vars

(* ------------------ get_next_prayer as the clock runs ----------------- *)
\* ticks before and after an instant of interest over which the clock is run
ClockWindow == 4

\* schedules whose five times increase strictly within the day
IncreasingSchedules == {ExampleSchedule, WinterSchedule, MidsummerSchedule}

\* the clock starts shortly before a deadline or before midnight, on either
\* of two days
InitClock ==
    /\ pc = "clock"
    /\ announced_intervals = {}
    /\ current_prayer_announced = FALSE
    /\ exit_code = Running
    /\ farewell = FALSE
    /\ crossed = {}
    /\ recrossed = {}
    /\ emitted = {}
    /\ nErr = 0
    /\ errLimit = 0
    /\ logged = 0
    /\ interrupted = FALSE
    /\ InitEnv
    /\ InitProbe
    /\ prayer_times \in IncreasingSchedules
    /\ now \in {OnDayOf(prayer_times[p], d * TicksPerDay) - ClockWindow :
                    p \in Range(PRAYERS), d \in 0..1}
               \cup {d * TicksPerDay - ClockWindow : d \in 1..2}
    /\ startTime = now
    /\ endTime = now + 2 * ClockWindow
    /\ target = NoTarget
    /\ remaining = NoRemaining

\* get_next_prayer is called, the first time at the starting instant and then
\* after every tick of the clock
AdvanceAndAsk ==
    /\ pc = "clock"
    /\ now < endTime
    /\ now' = IF target = NoTarget THEN now ELSE now + 1
    /\ target' = get_next_prayer(prayer_times, now')
    /\ UNCHANGED <<prayer_times, announced_intervals, current_prayer_announced,
                   pc, remaining, exit_code, farewell, startTime, endTime,
                   crossed, recrossed, emitted, nErr, errLimit, logged,
                   interrupted>>
    /\ UNCHANGED <<probeVars, startupVars, azanVars>>

SpecClock == InitClock /\ [][AdvanceAndAsk]_vars

(* =============================== claims =============================== *)
\* the values should_announce can accept: the ladder, and every minute below 20
Eligible == {180, 120, 90, 60, 45, 30, 20} \cup (1..19)

\* the deadlines of the day the loop was entered on that the clock has
\* reached since
DeadlinesPassed ==
    {d \in {OnDayOf(prayer_times[p], startTime) : p \in Range(PRAYERS)} :
        startTime < d /\ d <= now}

\* C1: when the loop, polling once per second with nothing raised and no
\* interrupt, has polled up to and through a deadline, the IT'S TIME banner
\* has been printed exactly once for that deadline; and when the transition
\* has finished, current_prayer_announced is true and announced_intervals is
\* empty.
C1_DeadlineFiresExactlyOnce ==
    /\ (pc = "sleep1" /\ nErr = 0 /\ ~interrupted) =>
          \A d \in DeadlinesPassed : d \in crossed /\ d \notin recrossed
    /\ pc = "pause60" =>
          (current_prayer_announced /\ announced_intervals = {})

\* C2: within one cycle, a call should_announce(m) with m in the ladder or in
\* 1..19 returns true exactly when it is the first call with that m,
\* whatever other values were passed before it.
C2_FiresOncePerCycle ==
    lastCall.m \in Eligible => (lastCall.result <=> lastCall.first)

\* C2 witness: a third call repeats an accepted value after another value was
\* passed in between, and is refused.
C2_Witness ==
    /\ nCalls = 3
    /\ lastCall.m = focus
    /\ lastCall.m \in Eligible
    /\ ~lastCall.first
    /\ ~lastCall.result
    /\ Cardinality(calledThisCycle) = 2
    /\ focus \in firedThisCycle

\* C3: should_announce(m) returns false for m = 0, for m >= 181 and for every
\* m >= 20 outside the ladder, whatever announced_intervals holds.
C3_NeverFiresOutsideRule ==
    (lastCall.m = 0 \/ lastCall.m >= 181
        \/ (lastCall.m >= 20 /\ lastCall.m \notin {180, 120, 90, 60, 45, 30, 20}))
    => ~lastCall.result

\* C3 witness: 181 was passed while announced_intervals held values, and was
\* refused.
C3_Witness ==
    /\ lastCall.m = 181
    /\ ~lastCall.result
    /\ announced_intervals # {}

\* C4: at the end of every iteration in which the minutes remaining to the
\* target deadline are a ladder value or a minute of 1..19, an announcement
\* of that many minutes has been made for that deadline.
C4_EveryThresholdAnnounced ==
    (pc = "sleep1" /\ nErr = 0
       /\ remaining.hours * 60 + remaining.minutes \in Eligible)
    => \E e \in emitted :
          /\ e[1] = target.time
          /\ e[2].prayer = target.name
          /\ MessageMinutes(e[2]) = remaining.hours * 60 + remaining.minutes

\* C5: the IT'S TIME banner is never printed a second time for the same
\* deadline instant.
C5_NoSecondCrossing == recrossed = {}

\* C5 witness: a deadline was announced, the 60-second pause is over and a
\* later iteration has run without announcing it again.
C5_Witness ==
    /\ crossed # {}
    /\ pc = "sleep1"
    /\ current_prayer_announced = FALSE
    /\ \E d \in crossed : now >= d + PostPrayerSleepSecs * TicksPerSec - TicksPerSec

\* today's instant of the i-th prayer, for the clock value t
TodayAt(i, t) ==
    At(t \div TicksPerDay,
       10 * prayer_times[PRAYERS[i]][1] + prayer_times[PRAYERS[i]][2],
       10 * prayer_times[PRAYERS[i]][3] + prayer_times[PRAYERS[i]][4], 0, 0)

\* C6: get_next_prayer returns the first prayer, in the order Fajr, Dhuhr,
\* Asr, Maghrib, Isha, whose time today is strictly after now, and Fajr at
\* the same time of day tomorrow when there is none; with the example
\* schedule 18:00 gives Maghrib today 19:00, 23:00 gives Fajr tomorrow 05:00
\* and 19:00:00 sharp gives Isha today 20:30.
C6_NextPrayerRule ==
    target # NoTarget =>
      LET later == {i \in 1..5 : TodayAt(i, now) > now}
      IN  /\ later = {} =>
                target = [name |-> "Fajr", time |-> TodayAt(1, now) + TicksPerDay]
          /\ later # {} =>
                \E i \in later :
                    /\ \A j \in later : i <= j
                    /\ target = [name |-> PRAYERS[i], time |-> TodayAt(i, now)]
          /\ (prayer_times = ExampleSchedule /\ now = At(0, 18, 0, 0, 0)) =>
                target = [name |-> "Maghrib", time |-> At(0, 19, 0, 0, 0)]
          /\ (prayer_times = ExampleSchedule /\ now = At(0, 23, 0, 0, 0)) =>
                target = [name |-> "Fajr", time |-> At(1, 5, 0, 0, 0)]
          /\ (prayer_times = ExampleSchedule /\ now = At(0, 19, 0, 0, 0)) =>
                target = [name |-> "Isha", time |-> At(0, 20, 30, 0, 0)]

\* C6 witness: the call made exactly at a deadline's instant has returned the
\* following deadline.
C6_Witness ==
    /\ prayer_times = ExampleSchedule
    /\ now = At(0, 19, 0, 0, 0)
    /\ target = [name |-> "Isha", time |-> At(0, 20, 30, 0, 0)]

\* C7: for a target strictly after now, get_time_remaining returns hours >= 0,
\* minutes and seconds in 0..59, and together they are the whole seconds of
\* target - now; 5 seconds give (0,0,5) and 2h30m15s give (2,30,15).
C7_RemainingDecomposition ==
    (remaining # NoRemaining /\ target.time > now) =>
      LET whole == remaining.hours * 3600 + remaining.minutes * 60
                     + remaining.seconds
      IN  /\ remaining.hours >= 0
          /\ remaining.minutes \in 0..59
          /\ remaining.seconds \in 0..59
          /\ whole * TicksPerSec <= target.time - now
          /\ target.time - now < (whole + 1) * TicksPerSec
          /\ target.time - now = 5 * TicksPerSec =>
                remaining = [hours |-> 0, minutes |-> 0, seconds |-> 5]
          /\ target.time - now = 9015 * TicksPerSec =>
                remaining = [hours |-> 2, minutes |-> 30, seconds |-> 15]

\* C7 witness: the call with 2h30m15s and a fraction of a second to go has
\* returned (2,30,15).
C7_Witness ==
    /\ target.time - now = 9015 * TicksPerSec + 1
    /\ remaining = [hours |-> 2, minutes |-> 30, seconds |-> 15]

\* C8: after the reset, the first call should_announce(m) for a value m that
\* had fired before the reset returns true.
C8_ResetMakesEligibleAgain ==
    (lastCall.first /\ lastCall.m \in firedEarlier) => lastCall.result

\* C8 witness: a value that fired before the reset was passed again after it
\* and fired again.
C8_Witness ==
    /\ lastCall.first
    /\ lastCall.m \in firedEarlier
    /\ lastCall.m \in Eligible
    /\ lastCall.result

\* C9: once an interrupt has been delivered, the process has left the loop
\* through the KeyboardInterrupt clause: the farewell is printed and the exit
\* code is 0.
C9_InterruptExitsGracefully ==
    interrupted => (pc = "exited" /\ farewell /\ exit_code = 0)

\* C10: an error raised in an iteration is logged and leads to the 5-second
\* cooldown; the cooldown ends in a new iteration at least 5 seconds later;
\* and the process ends only by an interrupt.
C10_ErrorsAreAbsorbed ==
    [][/\ nErr' > nErr =>
             (pc' = "cooldown" /\ logged' = logged + 1 /\ exit_code' = Running)
       /\ (pc = "cooldown" /\ ~interrupted') =>
             (pc' = "loop" /\ now' >= now + 5 * TicksPerSec)
       /\ (pc' \in {"exited", "crashed"} \/ exit_code' # Running) => interrupted'
      ]_vars

\* C10 witness: an error was raised, the cooldown is over and a later
\* iteration has completed.
C10_Witness ==
    /\ nErr > 0
    /\ logged = nErr
    /\ pc = "sleep1"
    /\ ~interrupted

\* the places of the process inside the countdown loop
LoopPcs == {"loop", "sleep1", "azan", "pause60", "cooldown"}

\* the three ways the fetch fails: a network or parse error, a code that is
\* not 200, a prayer name that is missing
FetchFailed(resp) ==
    \/ resp.kind # "json"
    \/ "code" \notin DOMAIN resp.data
    \/ resp.data.code # 200
    \/ ~(Range(PRAYERS) \subseteq DOMAIN resp.data.data.timings)

\* C11: after a fetch that failed (network or parse error, code other than
\* 200, or a prayer name missing), the error has been reported, the loop is
\* not entered, and the process ends with a non-zero exit code.
C11_FetchFailureIsFatal ==
    (fetch_response # None /\ FetchFailed(fetch_response)) =>
        /\ fetch_reported
        /\ pc \in {"display", "exited", "crashed"}
        /\ pc \in {"exited", "crashed"} => exit_code >= 1

\* a geolocation lookup that failed: an exception, a timeout, a malformed
\* answer (not JSON, a key missing, a coordinate that is not a number), or a
\* status other than 'success'
GeoFailed(resp) ==
    \/ resp.kind # "json"
    \/ "status" \notin DOMAIN resp.data
    \/ resp.data.status # "success"
    \/ ~({"lat", "lon", "city", "country"} \subseteq DOMAIN resp.data)
    \/ resp.data.lat \notin NumberLiterals
    \/ resp.data.lon \notin NumberLiterals

\* C12: once load_or_create_config is past its first branch: if the file
\* existed, the configuration is the file's, unchanged, and no geolocation
\* request and no file write were made; otherwise exactly one geolocation
\* request was made, a failed lookup gives the Mecca default, and when the
\* configuration is returned it has been written to the file.
C12_ConfigProvider ==
    pc # "init" =>
      IF initial_file # None
      THEN /\ config = initial_file
           /\ config_file = initial_file
           /\ geo_calls = 0
           /\ file_writes = 0
      ELSE /\ geo_calls = 1
           /\ GeoFailed(geo_response) =>
                /\ config # None
                /\ config.latitude = "21.4225"
                /\ config.longitude = "39.8262"
                /\ config.city = "Mecca"
                /\ config.country = "Saudi Arabia"
           /\ pc # "save_config" => (config_file = config /\ file_writes = 1)

\* the parts of C13 about the download and about blocking: a download is
\* attempted only when the file is absent and use_default_azan is set; a
\* failed download is followed by no playback and by the rest of the
\* transition (flag set, announced_intervals cleared, a pause of at least 60
\* seconds); and while play_azan runs no iteration takes place
AzanDownloadAndBlocking ==
    /\ (pc = "azan" /\ azanLog'.attempted) =>
            (~azan_file_exists /\ config.use_default_azan)
    /\ (pc = "azan" /\ azanLog'.download_failed) =>
            /\ ~azanLog'.played
            /\ pc' = "pause60"
            /\ current_prayer_announced'
            /\ announced_intervals' = {}
    /\ (pc = "pause60" /\ pc' # "pause60") =>
            now' >= now + 60 * TicksPerSec
    /\ pc = "azan" =>
            /\ target' = target
            /\ remaining' = remaining
            /\ emitted' = emitted
            /\ crossed' = crossed

\* C13 as stated: ... and whenever the download did not fail, the file is
\* played.
C13_AlwaysPlayedOtherwise ==
    [][/\ AzanDownloadAndBlocking
       /\ (pc = "azan" /\ ~azanLog'.download_failed) => azanLog'.played
      ]_vars

\* C13 (amended): play_azan attempts a download only when the file is absent
\* and use_default_azan is set; after a failed download nothing is played and
\* the transition still completes; when the download did not fail, the file
\* is played exactly if it exists by then and its playback does not fail - a
\* file that is absent with use_default_azan unset, or a playback error, is
\* reported and nothing is played; play_azan never raises, the transition
\* completes in every case, and no iteration runs while play_azan does.
C13_PlayAzan ==
    [][/\ AzanDownloadAndBlocking
       /\ (pc = "azan" /\ ~azanLog'.download_failed) =>
            (azanLog'.played <=> (azanLog'.exists /\ ~azanLog'.play_failed))
       /\ pc = "azan" =>
            /\ ~azanLog'.raised
            /\ pc' = "pause60"
            /\ current_prayer_announced'
            /\ announced_intervals' = {}
      ]_vars

\* C13 witness: the download failed, nothing was played, and the loop has
\* gone through the 60-second pause into later iterations.
C13_Witness ==
    /\ azanLog.called
    /\ azanLog.download_failed
    /\ ~azanLog.played
    /\ pc = "sleep1"
    /\ crossed # {}
    /\ \E d \in crossed : now >= d + 59 * TicksPerSec

\* C14: in a run in which nothing raised, at the first iteration whose next
\* deadline differs from the one of the iteration before, the iteration finds
\* announced_intervals empty.
C14_ResetOnNewDeadline ==
    [][(/\ pc = "loop"
        /\ nErr = 0
        /\ ~interrupted
        /\ target # NoTarget
        /\ target' # NoTarget
        /\ target'.time # target.time)
       => announced_intervals = {}
      ]_vars

\* the zero test of run: total_minutes == 0 and seconds == 0
ZeroRemaining(rem) == rem.hours * 60 + rem.minutes = 0 /\ rem.seconds = 0

\* C15: current_prayer_announced becomes true only in the deadline-crossing
\* transition; an iteration that finds a non-zero remaining time leaves it
\* false; and an iteration that finds zero remaining time without starting
\* the transition (the event is suppressed by the flag) has a target deadline
\* that was itself announced.
C15_FlagSuppressesOnlyAnnounced ==
    [][/\ (current_prayer_announced' /\ ~current_prayer_announced) => pc = "azan"
       /\ (pc = "loop" /\ pc' = "sleep1" /\ ~ZeroRemaining(remaining')) =>
              ~current_prayer_announced'
       /\ (pc = "loop" /\ pc' = "sleep1" /\ ZeroRemaining(remaining')) =>
              target'.time \in crossed
      ]_vars

\* C16: the prayer-times service is asked at most once, exactly once before
\* the loop is entered and never from inside the loop; no step of the loop
\* changes prayer_times; and when the target is Fajr of the day after the
\* start, its time of day is the Fajr value the startup fetch returned.
C16_ScheduleFetchedOnce ==
    [][/\ fetches' <= 1
       /\ pc' \in LoopPcs => fetches' = 1
       /\ pc \in LoopPcs => (prayer_times' = prayer_times /\ fetches' = fetches)
       /\ (target'.name = "Fajr"
             /\ target'.time >= (startTime \div TicksPerDay + 1) * TicksPerDay) =>
            target'.time =
              OnDayOf(fetch_response.data.data.timings["Fajr"], startTime + TicksPerDay)
      ]_vars

\* C16 witness: started after Isha on the example schedule, the loop has
\* wrapped around to Fajr 05:00 of the next day, has run past midnight, and
\* still holds the schedule of the one fetch.
C16_Witness ==
    /\ pc = "sleep1"
    /\ fetches = 1
    /\ prayer_times = ExampleSchedule
    /\ now >= TicksPerDay
    /\ target = [name |-> "Fajr", time |-> At(1, 5, 0, 0, 0)]

\* C17: announced_intervals only ever holds values of the ladder
\* {180,120,90,60,45,30,20} or of 1..19, hence at most 26 values; and a call
\* of should_announce that returns false leaves announced_intervals as it
\* was.
C17_IntervalsStayEligible ==
    [][/\ announced_intervals' \subseteq ({180, 120, 90, 60, 45, 30, 20} \cup (1..19))
       /\ Cardinality(announced_intervals') <= 26
       /\ (nCalls' = nCalls + 1 /\ ~lastCall'.result) =>
              announced_intervals' = announced_intervals
      ]_vars

\* C17 witness: with two values recorded, a call with a value that is not
\* eligible was refused.
C17_Witness ==
    /\ nCalls = 3
    /\ Cardinality(announced_intervals) = 2
    /\ ~lastCall.result
    /\ lastCall.m \in {0, 21, 1439}

\* C18: whatever the five HH:MM values and whatever the clock, get_next_prayer
\* returns one of the five prayer names with an instant strictly after now
\* and at most 24 hours after now; so run never sees an empty prayer name.
C18_NextPrayerAlwaysExists ==
    target # NoTarget =>
        /\ target.name \in Range(PRAYERS)
        /\ now < target.time
        /\ target.time <= now + TicksPerDay

\* C18 witness: called at the very instant of Fajr with no later prayer that
\* day, get_next_prayer has returned Fajr exactly 24 hours ahead.
C18_Witness ==
    /\ target.name = "Fajr"
    /\ target.time = now + TicksPerDay

\* the deadlines of the day of t and of the day after
DeadlinesAround(t) ==
    {OnDayOf(prayer_times[p], t + d * TicksPerDay) : p \in Range(PRAYERS), d \in 0..1}

\* the prayer after the named one in the circular order of PRAYERS
Successor(name) ==
    LET i == CHOOSE k \in 1..Len(PRAYERS) : PRAYERS[k] = name
    IN  PRAYERS[(i % Len(PRAYERS)) + 1]

\* C19: with strictly increasing times, every call of get_next_prayer returns
\* the earliest deadline strictly after now, under the name of that prayer;
\* and as the clock advances tick by tick the result changes exactly on the
\* tick at which now reaches the current target's instant, and then to the
\* successor of the current prayer in the order Fajr, Dhuhr, Asr, Maghrib,
\* Isha, Fajr.
C19_TargetAdvancesInOrder ==
    [][/\ target'.time \in DeadlinesAround(now')
       /\ target'.time > now'
       /\ \A d \in DeadlinesAround(now') : d > now' => target'.time <= d
       /\ target'.time % TicksPerDay = OnDayOf(prayer_times[target'.name], 0)
       /\ target # NoTarget =>
            /\ (target' # target) <=> (now' = target.time)
            /\ target' # target => target'.name = Successor(target.name)
      ]_vars

\* C19 witness: the clock has just reached Isha's instant and the target has
\* moved on from Isha to Fajr of the next day.
C19_Witness ==
    /\ pc = "clock"
    /\ now = OnDayOf(prayer_times["Isha"], now)
    /\ target.name = "Fajr"
    /\ target.time = OnDayOf(prayer_times["Fajr"], now + TicksPerDay)

====
